---- MODULE Spec2Model ----
(***************************************************************************)
(* Model of hytek_parser: the checksum engine and age-group inference of   *)
(* _utils.py and the dispatch loop of hy3_parser.parse_hy3.                *)
(*                                                                         *)
(* A line is a tuple of one-character strings.  An optional value is the   *)
(* empty tuple (None) or a one-element tuple.                              *)
(***************************************************************************)
EXTENDS Integers, Sequences, FiniteSets, TLC

VARIABLES
    file,                \* the stripped lines read from the file (hy3_parser.py:31)
    validate_checksums,  \* option of parse_hy3
    defect,              \* codes whose registered handler raises
    lines,               \* local `lines` of parse_hy3
    idx,                 \* 1-based position of the for loop
    parsed_file,         \* local `parsed_file`: the aggregate
    pc,                  \* "Initial", "Checked", "Scanning", "Terminated", "Aborted", "Idle"
    error,               \* class of the exception that left parse_hy3, or "None"
    cause,               \* __cause__ of that exception, or "None"
    returned,            \* optional: the value parse_hy3 returned
    validated,           \* history: loop positions passed to validate_checksum
    invoked,             \* history: loop positions whose handler was called
    call,                \* 1 for the first call of parse_hy3, 2 for the second
    first,               \* optional: outcome of the first call
    cs_line,             \* checksum run: the input line
    cs_pc,               \* checksum run: "idle", "calculated", "validated"
    cs_sum,              \* checksum run: value of calculate_checksum(cs_line)
    cs_res,              \* checksum run: outcome of validate_checksum
    ag_min, ag_max, ag_age,  \* age-group run: arguments of get_age_group
    ag_pc,               \* age-group run: "idle", "done"
    ag_out               \* age-group run: optional returned pair

vars == <<file, validate_checksums, defect, lines, idx, parsed_file, pc, error,
          cause, returned, validated, invoked, call, first,
          cs_line, cs_pc, cs_sum, cs_res, ag_min, ag_max, ag_age, ag_pc, ag_out>>

parseVars == <<file, validate_checksums, defect, lines, idx, parsed_file, pc,
               error, cause, returned, validated, invoked, call, first>>
csVars == <<cs_line, cs_pc, cs_sum, cs_res>>
agVars == <<ag_min, ag_max, ag_age, ag_pc, ag_out>>

(***************************************************************************)
(* Bounds                                                                  *)
(***************************************************************************)
MaxLines == 3        \* longest input file, in lines
MaxLen == 5          \* longest line of a checksum run
MaxSwimmerAge == 16  \* largest swimmer age of an age-group run
AgeSlack == 2        \* declared bounds range over -AgeSlack .. 109 + AgeSlack

None == <<>>
Some(x) == <<x>>

(***************************************************************************)
(* Characters and Python string primitives                                 *)
(***************************************************************************)
\* ord() of the characters that occur in the model
Ord ==
    [c \in {" ", "0", "1", "2", "3", "5", "7", "A", "B", "Q", "X", "Z"} |->
        CASE c = " " -> 32
          [] c = "0" -> 48
          [] c = "1" -> 49
          [] c = "2" -> 50
          [] c = "3" -> 51
          [] c = "5" -> 53
          [] c = "7" -> 55
          [] c = "A" -> 65
          [] c = "B" -> 66
          [] c = "Q" -> 81
          [] c = "X" -> 88
          [] c = "Z" -> 90]

\* f"{d}" of a one-digit integer
DigitChars == <<"0", "1", "2", "3", "4", "5", "6", "7", "8", "9">>

\* str.isdigit() restricted to the ASCII characters of the model
isdigit(s) ==
    /\ Len(s) > 0
    /\ \A i \in 1..Len(s) : \E d \in 1..Len(DigitChars) : s[i] = DigitChars[d]

\* s[:-2]
DropLast2(s) == IF Len(s) <= 2 THEN <<>> ELSE SubSeq(s, 1, Len(s) - 2)

\* s[-2:]
Last2(s) == IF Len(s) <= 2 THEN s ELSE SubSeq(s, Len(s) - 1, Len(s))

\* s[0:2]
Code(s) == IF Len(s) <= 2 THEN s ELSE SubSeq(s, 1, 2)

\* "Z0".ljust(n, " ")
RECURSIVE ljust(_, _)
ljust(s, n) == IF Len(s) >= n THEN s ELSE ljust(Append(s, " "), n)

(***************************************************************************)
(* Checksum engine (_utils.py)                                             *)
(***************************************************************************)
\* sum of weight * ord over the 0-based indices from, from+2, ... of chars
RECURSIVE StrideSum(_, _, _)
StrideSum(chars, from, weight) ==
    IF from >= Len(chars) THEN 0
    ELSE weight * Ord[chars[from + 1]] + StrideSum(chars, from + 2, weight)

calculate_checksum_keep(line) ==
    LET odd_sum == StrideSum(line, 1, 2)
        even_sum == StrideSum(line, 0, 1)
        sum_val == odd_sum + even_sum
        sum2 == (sum_val \div 21) + 205
        checksum1 == sum2 % 10
        checksum2 == (sum2 \div 10) % 10
    IN  <<DigitChars[checksum1 + 1], DigitChars[checksum2 + 1]>>

calculate_checksum(line) ==
    LET body == DropLast2(line)
        odd_sum == StrideSum(body, 1, 2)
        even_sum == StrideSum(body, 0, 1)
        sum_val == odd_sum + even_sum
        sum2 == (sum_val \div 21) + 205
        checksum1 == sum2 % 10
        checksum2 == (sum2 \div 10) % 10
    IN  <<DigitChars[checksum1 + 1], DigitChars[checksum2 + 1]>>

\* "True", or the class of the exception raised
validate_checksum(line) ==
    IF Len(line) < 2 THEN "MalformedChecksumError"
    ELSE LET actual_checksum == Last2(line)
         IN  IF ~isdigit(actual_checksum) THEN "MalformedChecksumError"
             ELSE IF actual_checksum # calculate_checksum(line) THEN "ChecksumError"
             ELSE "True"

(***************************************************************************)
(* Age-group inference (_utils.py)                                         *)
(***************************************************************************)
guess_age_group(swimmer_age) ==
    IF swimmer_age <= 8 THEN <<0, 8>>
    ELSE IF 9 <= swimmer_age /\ swimmer_age <= 10 THEN <<9, 10>>
    ELSE IF 11 <= swimmer_age /\ swimmer_age <= 12 THEN <<11, 12>>
    ELSE IF 13 <= swimmer_age /\ swimmer_age <= 14 THEN <<13, 14>>
    ELSE <<0, 109>>

get_age_group(age_min, age_max, swimmer_age) ==
    LET min1 == IF age_min # None /\ age_min[1] < 0 THEN None ELSE age_min
        max1 == IF age_max # None /\ age_max[1] > 109 THEN None ELSE age_max
    IN  IF min1 # None /\ max1 # None THEN <<min1[1], max1[1]>>
        ELSE IF min1 # None THEN
            IF swimmer_age > min1[1] + 1 THEN <<min1[1], 109>>
            ELSE <<min1[1], min1[1] + 1>>
        ELSE IF max1 # None THEN
            IF swimmer_age < max1[1] - 1 THEN <<0, max1[1]>>
            ELSE <<max1[1] - 1, max1[1]>>
        ELSE guess_age_group(swimmer_age)

(***************************************************************************)
(* Dispatch engine (hy3_parser.py)                                         *)
(***************************************************************************)
A1 == <<"A", "1">>
Z0 == <<"Z", "0">>

\* keys of the dispatch table HY3_LINE_PARSERS
HY3_LINE_PARSERS == {<<"A", "1">>, <<"B", "1">>}

\* whether the handler registered for the line's code raises
HandlerRaises(line, aggregate) == Code(line) \in defect

\* the aggregate the handler returns: the handled lines, in order
HandlerResult(line, aggregate) == Append(aggregate, line)

\* the lines a file may hold, already stripped
FileLines ==
    { <<"A", "1", "2", "1">>,       \* meet header, checksum right
      <<"A", "1", "2", "2">>,       \* meet header, checksum digit corrupted
      <<"B", "1", "2", "1">>,       \* known code, checksum right
      <<"B", "1", "2", "X">>,       \* known code, checksum not two digits
      <<"Q", "1", "3", "1">>,       \* unknown code, checksum right
      <<"Q", "1", "0", "0">>,       \* unknown code, checksum wrong
      <<"Z", "0", "3", "1">>,       \* terminator, checksum right
      <<"Z", "0", "0", "0">>,       \* terminator, checksum wrong
      <<>> }                        \* empty line

RECURSIVE FilesOfLen(_)
FilesOfLen(n) ==
    IF n = 0 THEN {<<>>}
    ELSE {Append(f, l) : f \in FilesOfLen(n - 1), l \in FileLines}

Files == UNION {FilesOfLen(n) : n \in 0..MaxLines}

TerminatorPad == 128

SynthTerminator_zero ==
    LET terminator_line == ljust(Z0, TerminatorPad)
    IN  terminator_line \o <<"0", "0">>

\* the line appended when the file does not end with a terminator
SynthTerminator ==
    LET terminator_line == ljust(Z0, TerminatorPad)
        checksum == calculate_checksum(terminator_line \o <<"0", "0">>)
    IN  terminator_line \o checksum

\* terminator lines a producing application may write
ExplicitTerminators ==
    { <<"Z", "0", "3", "1">>, <<"Z", "0", "0", "0">>, SynthTerminator }

ParseStart(f) ==
    /\ file = f
    /\ lines = f
    /\ idx = 0
    /\ parsed_file = <<>>
    /\ pc = "Initial"
    /\ error = "None"
    /\ cause = "None"
    /\ returned = None
    /\ validated = <<>>
    /\ invoked = <<>>

ParseIdle ==
    /\ file = <<>>
    /\ validate_checksums = FALSE
    /\ defect = {}
    /\ lines = <<>>
    /\ idx = 0
    /\ parsed_file = <<>>
    /\ pc = "Idle"
    /\ error = "None"
    /\ cause = "None"
    /\ returned = None
    /\ validated = <<>>
    /\ invoked = <<>>
    /\ call = 1
    /\ first = None

CsIdle ==
    /\ cs_line = <<>>
    /\ cs_pc = "off"
    /\ cs_sum = <<>>
    /\ cs_res = "None"

AgIdle ==
    /\ ag_min = None
    /\ ag_max = None
    /\ ag_age = 0
    /\ ag_pc = "off"
    /\ ag_out = None

Init ==
    /\ \E f \in Files : ParseStart(f)
    /\ validate_checksums \in BOOLEAN
    /\ defect \in SUBSET HY3_LINE_PARSERS
    /\ call = 1
    /\ first = None
    /\ CsIdle
    /\ AgIdle

Abort(kind, why) ==
    /\ pc' = "Aborted"
    /\ error' = kind
    /\ cause' = why

CheckFormat_anyHeader ==
    /\ pc = "Initial"
    /\ IF lines = <<>>
       THEN Abort("IndexError", "None")
       ELSE IF Code(lines[1]) \notin HY3_LINE_PARSERS
       THEN Abort("ValueError", "None")
       ELSE pc' = "Checked" /\ UNCHANGED <<error, cause>>
    /\ UNCHANGED <<file, validate_checksums, defect, lines, idx, parsed_file,
                   returned, validated, invoked, call, first>>
    /\ UNCHANGED <<csVars, agVars>>

\* hy3_parser.py:34-35
CheckFormat ==
    /\ pc = "Initial"
    /\ IF lines = <<>>
       THEN Abort("IndexError", "None")
       ELSE IF Code(lines[1]) # A1
       THEN Abort("ValueError", "None")
       ELSE pc' = "Checked" /\ UNCHANGED <<error, cause>>
    /\ UNCHANGED <<file, validate_checksums, defect, lines, idx, parsed_file,
                   returned, validated, invoked, call, first>>
    /\ UNCHANGED <<csVars, agVars>>

\* hy3_parser.py:38-46
AddTerminator ==
    /\ pc = "Checked"
    /\ lines' = IF Code(lines[Len(lines)]) # Z0
                THEN Append(lines, SynthTerminator)
                ELSE lines
    /\ parsed_file' = <<>>
    /\ idx' = 1
    /\ pc' = "Scanning"
    /\ UNCHANGED <<file, validate_checksums, defect, error, cause, returned,
                   validated, invoked, call, first>>
    /\ UNCHANGED <<csVars, agVars>>

InLoop == pc = "Scanning" /\ idx <= Len(lines)

\* the checksum step of one iteration did not raise
CheckPass ==
    validate_checksums => validate_checksum(lines[idx]) = "True"

Validated ==
    validated' = IF validate_checksums THEN Append(validated, idx) ELSE validated

\* hy3_parser.py:49-50, validate_checksum raises
ValidateFail ==
    /\ InLoop
    /\ validate_checksums
    /\ validate_checksum(lines[idx]) # "True"
    /\ Validated
    /\ Abort(validate_checksum(lines[idx]), "None")
    /\ UNCHANGED <<file, defect, validate_checksums, lines, idx, parsed_file,
                   returned, invoked, call, first>>
    /\ UNCHANGED <<csVars, agVars>>

Return_noBreak ==
    /\ pc = "Scanning"
    /\ \/ /\ idx > Len(lines)
          /\ pc' = "Terminated"
          /\ returned' = Some(parsed_file)
          /\ UNCHANGED <<validated, idx>>
       \/ /\ idx <= Len(lines)
          /\ CheckPass
          /\ Code(lines[idx]) = Z0
          /\ Validated
          /\ idx' = idx + 1
          /\ UNCHANGED <<pc, returned>>
    /\ UNCHANGED <<file, defect, validate_checksums, lines, parsed_file,
                   error, cause, invoked, call, first>>
    /\ UNCHANGED <<csVars, agVars>>

\* hy3_parser.py:48-56 and 73: the loop ends (terminator or no line left)
\* and parsed_file is returned
Return ==
    /\ pc = "Scanning"
    /\ \/ /\ idx > Len(lines)
          /\ UNCHANGED validated
       \/ /\ idx <= Len(lines)
          /\ CheckPass
          /\ Code(lines[idx]) = Z0
          /\ Validated
    /\ pc' = "Terminated"
    /\ returned' = Some(parsed_file)
    /\ UNCHANGED <<file, defect, validate_checksums, lines, idx, parsed_file,
                   error, cause, invoked, call, first>>
    /\ UNCHANGED <<csVars, agVars>>

SkipUnknown_keyError ==
    /\ InLoop
    /\ CheckPass
    /\ Code(lines[idx]) # Z0
    /\ Code(lines[idx]) \notin HY3_LINE_PARSERS
    /\ Validated
    /\ Abort("RuntimeError", "KeyError")
    /\ UNCHANGED <<file, defect, validate_checksums, lines, idx, parsed_file,
                   returned, invoked, call, first>>
    /\ UNCHANGED <<csVars, agVars>>

\* hy3_parser.py:59-63: no handler for the code, continue
SkipUnknown ==
    /\ InLoop
    /\ CheckPass
    /\ Code(lines[idx]) # Z0
    /\ Code(lines[idx]) \notin HY3_LINE_PARSERS
    /\ Validated
    /\ idx' = idx + 1
    /\ UNCHANGED <<file, defect, validate_checksums, lines, parsed_file, pc,
                   error, cause, returned, invoked, call, first>>
    /\ UNCHANGED <<csVars, agVars>>

Dispatch_unchecked ==
    /\ InLoop
    /\ Code(lines[idx]) # Z0
    /\ Code(lines[idx]) \in HY3_LINE_PARSERS
    /\ ~HandlerRaises(lines[idx], parsed_file)
    /\ UNCHANGED validated
    /\ invoked' = Append(invoked, idx)
    /\ parsed_file' = HandlerResult(lines[idx], parsed_file)
    /\ idx' = idx + 1
    /\ UNCHANGED <<file, defect, validate_checksums, lines, pc, error, cause,
                   returned, call, first>>
    /\ UNCHANGED <<csVars, agVars>>

\* hy3_parser.py:59-65: the handler returns the new aggregate
Dispatch ==
    /\ InLoop
    /\ CheckPass
    /\ Code(lines[idx]) # Z0
    /\ Code(lines[idx]) \in HY3_LINE_PARSERS
    /\ ~HandlerRaises(lines[idx], parsed_file)
    /\ Validated
    /\ invoked' = Append(invoked, idx)
    /\ parsed_file' = HandlerResult(lines[idx], parsed_file)
    /\ idx' = idx + 1
    /\ UNCHANGED <<file, defect, validate_checksums, lines, pc, error, cause,
                   returned, call, first>>
    /\ UNCHANGED <<csVars, agVars>>

HandlerRaise_swallowed ==
    /\ InLoop
    /\ CheckPass
    /\ Code(lines[idx]) # Z0
    /\ Code(lines[idx]) \in HY3_LINE_PARSERS
    /\ HandlerRaises(lines[idx], parsed_file)
    /\ Validated
    /\ invoked' = Append(invoked, idx)
    /\ idx' = idx + 1
    /\ UNCHANGED <<file, defect, validate_checksums, lines, parsed_file, pc,
                   error, cause, returned, call, first>>
    /\ UNCHANGED <<csVars, agVars>>

\* hy3_parser.py:65-68: the handler raises, re-raised as RuntimeError
HandlerRaise ==
    /\ InLoop
    /\ CheckPass
    /\ Code(lines[idx]) # Z0
    /\ Code(lines[idx]) \in HY3_LINE_PARSERS
    /\ HandlerRaises(lines[idx], parsed_file)
    /\ Validated
    /\ invoked' = Append(invoked, idx)
    /\ Abort("RuntimeError", "handler exception")
    /\ UNCHANGED <<file, defect, validate_checksums, lines, idx, parsed_file,
                   returned, call, first>>
    /\ UNCHANGED <<csVars, agVars>>

Next ==
    \/ CheckFormat
    \/ AddTerminator
    \/ ValidateFail
    \/ Return
    \/ SkipUnknown
    \/ Dispatch
    \/ HandlerRaise

Spec == Init /\ [][Next]_vars

(***************************************************************************)
(* Two calls: parse_hy3 on a file, then on the file with an explicit       *)
(* terminator line appended                                                *)
(***************************************************************************)
Terminal == {"Terminated", "Aborted"}

Outcome == [status |-> pc, error |-> error, returned |-> returned]

SecondCall ==
    /\ call = 1
    /\ pc \in Terminal
    /\ \E t \in ExplicitTerminators :
          /\ file' = Append(file, t)
          /\ lines' = Append(file, t)
    /\ first' = Some(Outcome)
    /\ call' = 2
    /\ idx' = 0
    /\ parsed_file' = <<>>
    /\ pc' = "Initial"
    /\ error' = "None"
    /\ cause' = "None"
    /\ returned' = None
    /\ validated' = <<>>
    /\ invoked' = <<>>
    /\ UNCHANGED <<validate_checksums, defect>>
    /\ UNCHANGED <<csVars, agVars>>

NextPair == Next \/ SecondCall

SpecPair == Init /\ [][NextPair]_vars

(***************************************************************************)
(* Checksum runs                                                           *)
(***************************************************************************)
CsAlphabet == {"Z", "0", "7", "A", " "}

RECURSIVE CsLinesOfLen(_)
CsLinesOfLen(n) ==
    IF n = 0 THEN {<<>>}
    ELSE {Append(l, c) : l \in CsLinesOfLen(n - 1), c \in CsAlphabet}

CsLines == UNION {CsLinesOfLen(n) : n \in 0..MaxLen}

InitChecksum ==
    /\ ParseIdle
    /\ AgIdle
    /\ cs_line \in CsLines
    /\ cs_pc = "idle"
    /\ cs_sum = <<>>
    /\ cs_res = "None"

\* cs_sum := calculate_checksum(cs_line)
CalcChecksum ==
    /\ cs_pc = "idle"
    /\ cs_sum' = calculate_checksum(cs_line)
    /\ cs_pc' = "calculated"
    /\ UNCHANGED <<cs_line, cs_res>>
    /\ UNCHANGED <<parseVars, agVars>>

\* validate_checksum(cs_line[:-2] + cs_sum)
ValidateReplaced ==
    /\ cs_pc = "calculated"
    /\ cs_res' = validate_checksum(DropLast2(cs_line) \o cs_sum)
    /\ cs_pc' = "validated"
    /\ UNCHANGED <<cs_line, cs_sum>>
    /\ UNCHANGED <<parseVars, agVars>>

\* validate_checksum(cs_line)
ValidateRaw ==
    /\ cs_pc = "idle"
    /\ cs_res' = validate_checksum(cs_line)
    /\ cs_pc' = "raw"
    /\ UNCHANGED <<cs_line, cs_sum>>
    /\ UNCHANGED <<parseVars, agVars>>

NextChecksum == CalcChecksum \/ ValidateReplaced \/ ValidateRaw

SpecChecksum == InitChecksum /\ [][NextChecksum]_vars

(***************************************************************************)
(* Age-group runs                                                          *)
(***************************************************************************)
DeclaredAges ==
    {None} \cup {Some(n) : n \in ((0 - AgeSlack)..(MaxSwimmerAge + AgeSlack))
                                  \cup ((109 - AgeSlack)..(109 + AgeSlack))}

InitAge ==
    /\ ParseIdle
    /\ CsIdle
    /\ ag_min \in DeclaredAges
    /\ ag_max \in DeclaredAges
    /\ ag_age \in 0..MaxSwimmerAge
    /\ ag_pc = "idle"
    /\ ag_out = None

GetAgeGroup ==
    /\ ag_pc = "idle"
    /\ ag_out' = Some(get_age_group(ag_min, ag_max, ag_age))
    /\ ag_pc' = "done"
    /\ UNCHANGED <<ag_min, ag_max, ag_age>>
    /\ UNCHANGED <<parseVars, csVars>>

NextAge == GetAgeGroup

SpecAge == InitAge /\ [][NextAge]_vars

(***************************************************************************)
(* Properties                                                              *)
(***************************************************************************)
Range(s) == {s[i] : i \in 1..Len(s)}

ChecksumErrors == {"MalformedChecksumError", "ChecksumError"}

\* position of the first terminator line of ls, Len(ls) + 1 when there is none
FirstTerminator(ls) ==
    IF \E i \in 1..Len(ls) : Code(ls[i]) = Z0
    THEN CHOOSE i \in 1..Len(ls) :
            /\ Code(ls[i]) = Z0
            /\ \A j \in 1..(i - 1) : Code(ls[j]) # Z0
    ELSE Len(ls) + 1

UnknownCode(line) == Code(line) # Z0 /\ Code(line) \notin HY3_LINE_PARSERS

\* C1: parse_hy3 either returns an aggregate or fails with FormatError
\* (ValueError), MalformedChecksumError, ChecksumError or the RuntimeError
\* that reports a handler defect; no other failure is reachable.
C1_OnlyTaggedErrors ==
    /\ pc = "Aborted" =>
          error \in {"ValueError", "MalformedChecksumError", "ChecksumError",
                     "RuntimeError"}
    /\ pc = "Terminated" => returned # None

\* C2: with validate_checksums, lines are validated in file order and each
\* before its handler; the first line with a malformed or mismatched checksum
\* aborts with that error, no handler runs for it or a later line, nothing is
\* returned; a corrupted header checksum digit gives ChecksumError with no
\* handler run.
C2_ValidateBeforeDispatch ==
    validate_checksums =>
        /\ \A j \in 1..Len(validated) : validated[j] = j
        /\ \A j \in 1..Len(invoked) :
              /\ invoked[j] \in Range(validated)
              /\ validate_checksum(lines[invoked[j]]) = "True"
        /\ \A j \in 1..Len(validated) :
              validate_checksum(lines[validated[j]]) # "True" =>
                  /\ j = Len(validated)
                  /\ pc = "Aborted"
                  /\ error = validate_checksum(lines[validated[j]])
                  /\ error \in ChecksumErrors
                  /\ returned = None
                  /\ \A i \in 1..Len(invoked) : invoked[i] < validated[j]
        /\ (pc \in Terminal /\ file # <<>> /\ file[1] = <<"A", "1", "2", "2">>) =>
              /\ pc = "Aborted"
              /\ error = "ChecksumError"
              /\ invoked = <<>>
              /\ returned = None

C2_Witness ==
    /\ validate_checksums
    /\ pc = "Aborted"
    /\ error = "MalformedChecksumError"
    /\ Len(invoked) >= 1
    /\ idx < Len(lines)

\* C3: for a file that starts with a meet header and does not end with a
\* terminator, parse_hy3 has the same outcome as on the file with a
\* correctly checksummed terminator line appended, and the synthesized
\* terminator passes validate_checksum.
C3_SameAsExplicitTerminator ==
    /\ ( /\ call = 2
         /\ pc \in Terminal
         /\ Len(file) >= 2
         /\ Code(file[1]) = A1
         /\ Code(file[Len(file) - 1]) # Z0
         /\ validate_checksum(file[Len(file)]) = "True" )
       => Outcome = first[1]
    /\ Len(lines) = Len(file) + 1 =>
          /\ lines[Len(lines)] = SynthTerminator
          /\ validate_checksum(lines[Len(lines)]) = "True"

C3_Witness ==
    /\ call = 2
    /\ pc = "Terminated"
    /\ validate_checksums
    /\ Len(file) >= 3
    /\ Code(file[1]) = A1
    /\ Code(file[Len(file) - 1]) # Z0
    /\ file[Len(file)] = <<"Z", "0", "3", "1">>
    /\ Len(returned[1]) >= 2
    /\ Outcome = first[1]

\* C4 as stated: a line before the terminator whose code is not in the
\* dispatch table never aborts the parse, whatever validate_checksums is.
C4_UnknownCodeNeverAborts ==
    (pc = "Aborted" /\ idx >= 1) => ~UnknownCode(lines[idx])

\* C4 as amended: a line before the terminator whose code is not in the
\* dispatch table aborts the parse only when validate_checksums is set and
\* its own checksum is malformed or mismatched; otherwise it leaves the
\* aggregate unchanged, no handler is called and the loop goes on to the
\* next line.
C4_UnknownCodeSkipped ==
    /\ []((pc = "Aborted" /\ idx >= 1 /\ UnknownCode(lines[idx])) =>
             /\ validate_checksums
             /\ error = validate_checksum(lines[idx])
             /\ error \in ChecksumErrors)
    /\ [][(InLoop /\ UnknownCode(lines[idx]) /\ CheckPass) =>
             /\ pc' = "Scanning"
             /\ idx' = idx + 1
             /\ lines' = lines
             /\ parsed_file' = parsed_file
             /\ invoked' = invoked
             /\ error' = "None"
             /\ returned' = None]_vars

C4_Witness ==
    /\ validate_checksums
    /\ pc = "Terminated"
    /\ \E k \in 1..Len(lines) :
          /\ k < idx
          /\ UnknownCode(lines[k])
          /\ \E j \in 1..Len(invoked) : invoked[j] > k
          /\ \E j \in 1..Len(returned[1]) : returned[1][j] = lines[k + 1]

\* C5: processing stops at the first terminator line: no line after it is
\* checksum-validated or dispatched, none changes the returned aggregate or
\* aborts the parse.
C5_NothingAfterTerminator ==
    /\ \A j \in 1..Len(validated) : validated[j] <= FirstTerminator(lines)
    /\ \A j \in 1..Len(invoked) : invoked[j] < FirstTerminator(lines)
    /\ idx <= FirstTerminator(lines)
    /\ pc = "Terminated" =>
          /\ idx = FirstTerminator(lines)
          /\ returned = Some(parsed_file)
          /\ Len(parsed_file) = Len(invoked)
          /\ \A j \in 1..Len(invoked) : parsed_file[j] = lines[invoked[j]]

C5_Witness ==
    /\ pc = "Terminated"
    /\ validate_checksums
    /\ idx < Len(lines)
    /\ \E k \in (idx + 1)..Len(lines) :
          /\ validate_checksum(lines[k]) # "True"
          /\ Code(lines[k]) \in defect

\* C6: when the first line's code is not A1, parse_hy3 fails with the
\* "Not a Hytek file" ValueError before any checksum validation and any
\* handler call and returns nothing, for either setting of
\* validate_checksums and a first line whose checksum is invalid as well.
C6_FormatErrorFirst ==
    (file # <<>> /\ Code(file[1]) # A1 /\ pc # "Initial") =>
        /\ pc = "Aborted"
        /\ error = "ValueError"
        /\ validated = <<>>
        /\ invoked = <<>>
        /\ parsed_file = <<>>
        /\ returned = None

C6_Witness ==
    /\ pc = "Aborted"
    /\ error = "ValueError"
    /\ validate_checksums
    /\ Code(file[1]) = <<"B", "1">>
    /\ validate_checksum(file[1]) # "True"

\* C7: for every line L, validate_checksum succeeds on
\* L[:-2] + calculate_checksum(L).
C7_RoundTrip ==
    cs_pc = "validated" => cs_res = "True"

C7_Witness ==
    /\ cs_pc = "validated"
    /\ cs_res = "True"
    /\ Len(cs_line) = MaxLen
    /\ validate_checksum(cs_line) = "ChecksumError"

\* C8: get_age_group treats every declared bound below 0 or above 109 as
\* absent.
OutOfRangeAbsent(age) ==
    IF age # None /\ (age[1] < 0 \/ age[1] > 109) THEN None ELSE age

C8_OutOfRangeAsAbsent ==
    ag_pc = "done" =>
        ag_out = Some(get_age_group(OutOfRangeAbsent(ag_min),
                                    OutOfRangeAbsent(ag_max), ag_age))

\* C9: a handler that raises aborts parse_hy3 with the RuntimeError that
\* carries the handler's exception as its cause, no later line is validated
\* or dispatched and nothing is returned; a checksum failure is never
\* reported as that RuntimeError.
C9_HandlerDefect ==
    /\ \A j \in 1..Len(invoked) :
          HandlerRaises(lines[invoked[j]], parsed_file) =>
              /\ j = Len(invoked)
              /\ pc = "Aborted"
              /\ error = "RuntimeError"
              /\ cause = "handler exception"
              /\ returned = None
              /\ idx = invoked[j]
              /\ \A i \in 1..Len(validated) : validated[i] <= invoked[j]
    /\ (pc = "Aborted" /\ error = "RuntimeError") =>
          /\ invoked # <<>>
          /\ HandlerRaises(lines[invoked[Len(invoked)]], parsed_file)
    /\ (pc = "Aborted" /\ error \in ChecksumErrors) =>
          /\ cause = "None"
          /\ validate_checksums
          /\ validate_checksum(lines[idx]) = error

C9_Witness ==
    /\ pc = "Aborted"
    /\ error = "RuntimeError"
    /\ validate_checksums
    /\ Len(invoked) >= 2
    /\ idx < Len(lines)
    /\ validate_checksum(lines[idx + 1]) # "True"

\* C10: calculate_checksum("Z0") returns "07".
C10_DocstringExample ==
    (cs_pc = "calculated" /\ cs_line = Z0) => cs_sum = <<"0", "7">>
====
